---- MODULE Spec2Model ----
(***************************************************************************)
(* firlog: bulk log ingestion into per-tenant, per-day bleve indexes       *)
(* (src/app.go, src/engine.go).                                            *)
(*                                                                         *)
(* net/http serves every request on a goroutine of its own and the         *)
(* handlers take no lock: a request is followed step by step, one step     *)
(* for every access to the shared maps, the disk, the entropy pool and     *)
(* the clock, and the steps of different requests interleave.              *)
(*                                                                         *)
(* Time is counted in whole hours.  A time.Time is [inst, off]: the UTC    *)
(* instant and the zone offset it carries.  An RFC3339 text is             *)
(* [ok, d, h, off]: wall-clock day, wall-clock hour and zone offset, or    *)
(* ok = FALSE for a text time.Parse rejects.                               *)
(***************************************************************************)
EXTENDS Integers, Sequences, FiniteSets, Bags, TLC

VARIABLES
    Engines,     \* app.Engines: token -> engine object (index into engineObjs)
    engineObjs,  \* every *Engine constructed: [dataDir, indexes: day key -> handle]
    handles,     \* every bleve.Index handle created or opened: handle -> index path
    dirs,        \* tenant directories that exist under DataDir
    disk,        \* index path <<dataDir, day key>> -> persisted shard [docs, raw]
    pending,     \* bulk request bodies received and not yet handled
    pc,          \* per request goroutine: the statement it is at
    loc,         \* per request goroutine: its locals
    entropyPool, \* the entropy sources lying in the sync.Pool
    nowMs,       \* time.Now() in milliseconds
    issued       \* the bag of the identifiers newUlid made: [ms, payload, id]

vars ==
    <<Engines, engineObjs, handles, dirs, disk, pending, pc, loc, entropyPool,
      nowMs, issued>>

\* ---------------------------------------------------------------- bounds
MaxLines == 2
MaxParseLines == 3
MaxProcs == 2
MaxMs == 1
MaxPayload == 1
MaxIds == 2

\* ---------------------------------------------------------------- constants
LinePartCount == 8
DefaultSearchSize == 10
DashboardLimit == 1000
PoolSize == 10

\* app.Tokens, as given to NewApp
Tokens == <<"t1">>

\* ---------------------------------------------------------------- time
ZeroTime == [inst |-> 0, off |-> 0]
ZeroText == [ok |-> FALSE, d |-> 0, h |-> 0, off |-> 0]

\* time.Parse(time.RFC3339, text): the instant, carrying the text's offset
timeParse(text) ==
    [inst |-> text.d * 24 + text.h - text.off, off |-> text.off]

\* t.UTC()
timeUTC(t) == [inst |-> t.inst, off |-> 0]

\* t.Format("20060102"): the calendar day of t's wall clock in t's own zone
formatDay(t) == (t.inst + t.off) \div 24

\* t.Format(time.RFC3339)
formatRFC3339(t) ==
    [ok |-> TRUE, d |-> (t.inst + t.off) \div 24,
     h |-> (t.inst + t.off) % 24, off |-> t.off]

\* the UTC calendar day of an instant
utcDay(t) == t.inst \div 24

\* ---------------------------------------------------------------- identifiers
\* init() (app.go:23-28): PoolSize entropy sources are put in the pool
initPool == 1..PoolSize

\* entropyPool.Get() taking the source x out of the pool, with the source
\* left in the pool
poolGet_keep(pool, x) == pool

\* entropyPool.Get() taking the source x out of the pool (app.go:220)
poolGet(pool, x) == pool \ {x}

\* entropyPool.Put(entropy) (app.go:221)
poolPut(pool, x) == pool \cup {x}

\* n written with exactly width digits, most significant first; a digit
\* stands for one character of the identifier's alphabet, whose characters
\* sort in the order of their values
encodeFixed(n, width) == [i \in 1..width |-> (n \div 2^(width - i)) % 2]

\* the width of the timestamp part and of the random part: wide enough for
\* every timestamp and every payload
TimeDigits == MaxMs
PayloadDigits == MaxPayload

\* the identifier made of the timestamp alone
ulidString_noPayload(ms, payload) == encodeFixed(ms, TimeDigits)

\* the identifier with the random payload written before the timestamp
ulidString_payloadFirst(ms, payload) ==
    encodeFixed(payload, PayloadDigits) \o encodeFixed(ms, TimeDigits)

\* ulid.MustNew(ulid.Timestamp(now), entropy).String() (app.go:222): the
\* millisecond timestamp in a fixed number of characters, followed by the
\* random payload read from the entropy source in a fixed number of characters
ulidString(ms, payload) ==
    encodeFixed(ms, TimeDigits) \o encodeFixed(payload, PayloadDigits)

\* a sorts before b, comparing the two strings character by character
strLess(a, b) ==
    \E i \in 1..(Len(b)) :
        /\ \A j \in 1..(i - 1) : j <= Len(a) /\ a[j] = b[j]
        /\ \/ i > Len(a)
           \/ i <= Len(a) /\ a[i] < b[i]

\* ---------------------------------------------------------------- values
\* Values of a Log's Data map: a string, a ULID string, a time.Time, or a
\* string holding RFC3339 text.
strV(s) == [tag |-> "str", s |-> s, id |-> <<>>, t |-> ZeroTime, text |-> ZeroText]
idV(id) == [tag |-> "str", s |-> "ulid", id |-> id, t |-> ZeroTime, text |-> ZeroText]
timeV(t) == [tag |-> "time", s |-> "", id |-> <<>>, t |-> t, text |-> ZeroText]
rfcV(text) == [tag |-> "str", s |-> "rfc3339", id |-> <<>>, t |-> ZeroTime, text |-> text]

\* json.Marshal of one value: a time.Time becomes its RFC3339 string
marshalValue(v) == IF v.tag = "time" THEN rfcV(formatRFC3339(v.t)) ELSE v

\* json.Marshal(log.Data): the JSON object, key by key
jsonMarshal(data) == [k \in DOMAIN data |-> marshalValue(data[k])]

\* json.Unmarshal(blob, &log.Data): every JSON string comes back as a string
jsonUnmarshal(blob) == [k \in DOMAIN blob |-> blob[k]]

\* ---------------------------------------------------------------- records
NoLog == [Id |-> <<>>, Time |-> ZeroTime, Data |-> <<>>]

\* The three keys handleBulk always sets from the line (app.go:163-166)
baseData(line) ==
    ("host" :> strV(line.host)) @@ ("app" :> strV(line.app))
        @@ ("process" :> strV(line.process))

\* message[0] == '{' && message[len(message)-1] == '}' (app.go:167)
msgBraced(msg) == msg.kind \in {"json", "badjson"}

\* unmarshalInto with the keys already in the map kept
unmarshalInto_keepExisting(obj, data) == data @@ obj

\* json.Unmarshal([]byte(message), &data) into the already filled map: the
\* object's keys are added and overwrite the keys already present
unmarshalInto(obj, data) == obj @@ data

\* The record made of a line that passed the checks and of the identifier
\* newUlid returned (app.go:162-166, 172-183)
buildLog(line, id) ==
    LET parsedTime == timeParse(line.time)
        data0 == baseData(line)
        data1 == IF msgBraced(line.msg)
                 THEN unmarshalInto(line.msg.obj, data0)
                 ELSE ("msg" :> strV(line.msg.text)) @@ data0
        data == ("id" :> idV(id)) @@ ("time" :> timeV(parsedTime)) @@ data1
    IN  [Id |-> id, Time |-> parsedTime, Data |-> data]

\* parseLine with the check of the time left out
parseLine_noTimeCheck(line) ==
    IF line.nf # LinePartCount THEN "skip"
    ELSE IF line.msg.kind = "empty" THEN "panic"
    ELSE IF line.msg.kind = "badjson" THEN "skip"
    ELSE "newUlid"

\* One iteration of handleBulk's loop up to the call of newUlid
\* (app.go:150-175): the line is skipped (too few parts, a time that does
\* not parse, a {...} message that is not JSON), the handler panics on
\* message[0] of an empty message, or the line goes on to get its identifier
parseLine(line) ==
    IF line.nf # LinePartCount THEN "skip"
    ELSE IF ~line.time.ok THEN "skip"
    ELSE IF line.msg.kind = "empty" THEN "panic"
    ELSE IF line.msg.kind = "badjson" THEN "skip"
    ELSE "newUlid"

\* the record put in front of the records made so far
appendLog_front(logs, log) == <<log>> \o logs

\* parsedLogLines = append(parsedLogLines, &Log{...}) (app.go:179-183)
appendLog(logs, log) == Append(logs, log)

\* strings.Split(strings.TrimRight(body, "\n"), "\n"): never empty, an empty
\* body is one empty line (one part)
EmptyLine ==
    [nf |-> 1, time |-> ZeroText, host |-> "", app |-> "", process |-> "",
     msg |-> [kind |-> "empty", text |-> "", obj |-> <<>>]]

splitLines(body) == IF body = <<>> THEN <<EmptyLine>> ELSE body

\* contains(values, search) (app.go:210-217)
contains(values, search) == \E i \in 1..Len(values) : values[i] = search

\* ---------------------------------------------------------------- engine
\* A shard as bleve persists it: the indexed documents (batch.Index) and the
\* internal key/value store (batch.SetInternal), both keyed by identifier.
EmptyShard == [docs |-> <<>>, raw |-> <<>>]

\* applyBatch with the raw blobs of the batch left out
applyBatch_docsOnly(shard, batch) ==
    [docs |-> batch.docs @@ shard.docs, raw |-> shard.raw]

\* index.Batch(batch): the whole batch is applied to the shard
applyBatch(shard, batch) ==
    [docs |-> batch.docs @@ shard.docs, raw |-> batch.raw @@ shard.raw]

\* filepath.Join(e.dataDir, date+"_1.bleve")
indexPathOf(dataDir, date) == <<dataDir, date>>

\* The index paths some handle of this process holds open.  An open index
\* keeps the lock on its store file until it is closed, and no index is
\* ever closed: bleve.Open of a held path waits for the lock for ever.
held(hs) == { hs[h] : h \in 1..Len(hs) }

\* One iteration of the first loop of Engine.Index once indexFor has
\* returned the shard (engine.go:229-240): the batch of the day key is
\* created when it is missing, and the record's document and its serialised
\* copy are added to it under the record's identifier
batchAdd(batches, date, log) ==
    LET batch == IF date \in DOMAIN batches THEN batches[date] ELSE EmptyShard
        serialized == jsonMarshal(log.Data)
    IN  (date :> [docs |-> (log.Id :> log.Data) @@ batch.docs,
                  raw |-> (log.Id :> serialized) @@ batch.raw]) @@ batches

\* groupRet with the record whose shard cannot be obtained left out and the
\* loop going on
groupRet_skipRecord(l) ==
    IF l.err
    THEN [next |-> "grp", l |-> [l EXCEPT !.groupErr = TRUE, !.k = l.k + 1]]
    ELSE [next |-> "grp",
          l |-> [l EXCEPT !.batches = batchAdd(l.batches, l.date, l.logs[l.k]),
                          !.k = l.k + 1]]

\* What the first loop of Engine.Index does with the result of indexFor
\* (engine.go:225-240): the error is returned, and with it the handler
\* answers 500 (app.go:192-197); otherwise the record joins its batch
groupRet(l) ==
    IF l.err
    THEN [next |-> "done",
          l |-> [l EXCEPT !.groupErr = TRUE, !.indexErr = TRUE,
                          !.status = 500, !.outcome = "responded"]]
    ELSE [next |-> "grp",
          l |-> [l EXCEPT !.batches = batchAdd(l.batches, l.date, l.logs[l.k]),
                          !.k = l.k + 1]]

\* commitBatch with a failing commit that has already written its batch
commitBatch_failAfterWrite(d, path, batch, fail) ==
    [d EXCEPT ![path] = applyBatch(@, batch)]

\* err = index.Batch(batch) (engine.go:248): the batch is committed to the
\* shard, or the call fails and nothing of the batch is persisted
commitBatch(d, path, batch, fail) ==
    IF fail THEN d ELSE [d EXCEPT ![path] = applyBatch(@, batch)]

\* ---------------------------------------------------------------- search
\* The query string of the dashboard, `<query> time:>="from" time:<="to"`
\* (app.go:96), has no clause marked + or -: bleve's query string parser
\* makes every clause optional, and a document matches when it matches at
\* least one of them.  term: the query typed by the user, matched against
\* msg ("" when nothing was typed: the two time clauses alone); at most
\* size hits are returned (bleve.SearchRequest.Size).
matches(req, doc) ==
    \/ req.term # "" /\ "msg" \in DOMAIN doc /\ doc["msg"].s = req.term
    \/ doc["time"].t.inst >= req.from
    \/ doc["time"].t.inst <= req.to

\* The "time" field bleve returns with a hit: the stored instant, formatted
\* as RFC3339 in UTC.
hitOf(id, doc) == [ID |-> id, time |-> formatRFC3339(timeUTC(doc["time"].t))]

\* The matches of the request in the indexes of the alias (engine.go:182-187):
\* the alias searches every index by itself and merges the hits, so a
\* document held by two indexes under one identifier is two hits.  index:
\* the handle whose index the hit comes from.
matchingHits(d, hs, group, req) ==
    UNION { LET shard == d[hs[x]] IN
            { [index |-> x, hit |-> hitOf(id, shard.docs[id])] :
                id \in { y \in DOMAIN shard.docs : matches(req, shard.docs[y]) } }
          : x \in group }

\* search.SortBy({"-time", "-_id"}) (app.go:99); hits equal in time and
\* identifier differ in nothing Search reads, and are put in the order of
\* their handles
hitBefore(a, b) ==
    \/ timeParse(a.hit.time).inst > timeParse(b.hit.time).inst
    \/ /\ timeParse(a.hit.time).inst = timeParse(b.hit.time).inst
       /\ \/ strLess(b.hit.ID, a.hit.ID)
          \/ a.hit.ID = b.hit.ID /\ a.index < b.index

RECURSIVE sortHits(_)
sortHits(S) ==
    IF S = {} THEN <<>>
    ELSE LET first == CHOOSE a \in S : \A b \in S \ {a} : hitBefore(a, b)
         IN  <<first>> \o sortHits(S \ {first})

\* searchResult.Hits of group.Search(search) (engine.go:187): the first
\* req.size matches in sort order, each with its ID and its time field
searchHits(d, hs, group, req) ==
    LET sorted == sortHits(matchingHits(d, hs, group, req))
        n == IF Len(sorted) > req.size THEN req.size ELSE Len(sorted)
    IN  [i \in 1..n |-> sorted[i].hit]

\* how Search ends with an error: no records (engine.go:189, 196, 201, 206,
\* 211), and handleDashboard answers 500 (app.go:104-107)
searchFailed(l) ==
    [next |-> "done",
     l |-> [l EXCEPT !.searchErr = TRUE, !.out = <<>>, !.status = 500,
                     !.outcome = "responded"]]

\* hitRet with the error of json.Unmarshal dropped: a hit whose blob is
\* absent yields a record without data
hitRet_ignoreMissing(l, shard, fault) ==
    LET hit == l.hits[l.h]
        data == IF hit.ID \in DOMAIN shard.raw
                THEN jsonUnmarshal(shard.raw[hit.ID]) ELSE <<>>
    IN  IF l.err THEN searchFailed(l)
        ELSE IF fault THEN searchFailed([l EXCEPT !.fault = TRUE])
        ELSE [next |-> "srch_hit",
              l |-> [l EXCEPT !.h = l.h + 1,
                              !.out = Append(l.out, [Id |-> hit.ID,
                                                     Time |-> ZeroTime,
                                                     Data |-> data])]]

\* What the loop of Engine.Search does with the result of indexFor for one
\* hit (engine.go:199-214).  shard: the shard behind the handle indexFor
\* returned; fault: GetInternal reports an error.  A key that is absent
\* yields nil bytes, which json.Unmarshal rejects.
hitRet(l, shard, fault) ==
    LET hit == l.hits[l.h] IN
    IF l.err THEN searchFailed(l)
    ELSE IF fault THEN searchFailed([l EXCEPT !.fault = TRUE])
    ELSE IF hit.ID \notin DOMAIN shard.raw THEN searchFailed(l)
    ELSE [next |-> "srch_hit",
          l |-> [l EXCEPT !.h = l.h + 1,
                          !.out = Append(l.out,
                                      [Id |-> hit.ID, Time |-> ZeroTime,
                                       Data |-> jsonUnmarshal(shard.raw[hit.ID])])]]

\* ---------------------------------------------------------------- registry
RECURSIVE sortDays(_)
sortDays(S) ==
    IF S = {} THEN <<>>
    ELSE LET least == CHOOSE a \in S : \A b \in S : a <= b
         IN  <<least>> \o sortDays(S \ {least})

\* listIndexes(dataDir) (engine.go:304-325): the day keys persisted under
\* dataDir, sorted.  It returns an error when the directory does not exist
\* or cannot be opened or read (fail).
listIndexes(d, dirSet, dataDir, fail) ==
    IF dataDir \notin dirSet \/ fail
    THEN [err |-> TRUE, names |-> <<>>]
    ELSE [err |-> FALSE,
          names |-> sortDays({ p[2] : p \in { q \in DOMAIN d : q[1] = dataDir } })]

\* engine.indexes[...], err = bleve.Open(filepath.Join(dataDir, indexName))
\* and the check of err (engine.go:161-164): bleve.Open panics the
\* constructor when it fails (fail) and blocks it for ever when the index
\* is held by a live handle; otherwise the handle is put in the map.
openIndex(hs, dataDir, name, indexes, fail) ==
    IF fail
    THEN [panic |-> TRUE, hang |-> FALSE, indexes |-> indexes, handles |-> hs]
    ELSE IF indexPathOf(dataDir, name) \in held(hs)
    THEN [panic |-> FALSE, hang |-> TRUE, indexes |-> indexes, handles |-> hs]
    ELSE [panic |-> FALSE, hang |-> FALSE,
          indexes |-> (name :> Len(hs) + 1) @@ indexes,
          handles |-> Append(hs, indexPathOf(dataDir, name))]

\* The loop of NewEngine (engine.go:159-165): the names are opened one by
\* one, in order; the indexes opened before a panic or a wait stay open.
RECURSIVE openIndexes(_, _, _, _, _, _)
openIndexes(hs, dataDir, names, i, indexes, openFail) ==
    IF i > Len(names)
    THEN [panic |-> FALSE, hang |-> FALSE, indexes |-> indexes, handles |-> hs]
    ELSE LET o == openIndex(hs, dataDir, names[i], indexes,
                            names[i] \in openFail)
         IN  IF o.panic \/ o.hang THEN o
             ELSE openIndexes(o.handles, dataDir, names, i + 1, o.indexes,
                              openFail)

\* NewEngine(dataDir) (engine.go:149-168) run with no other goroutine, as
\* NewApp runs it: panics when the directory cannot be listed (listFail),
\* then opens every persisted index of the tenant
NewEngine(d, hs, dataDir, dirSet, listFail, openFail) ==
    LET names == listIndexes(d, dirSet, dataDir, listFail)
        o == openIndexes(hs, dataDir, names.names, 1, <<>>, openFail)
    IN  IF names.err
        THEN [panic |-> TRUE, hang |-> FALSE,
              engine |-> [dataDir |-> dataDir, indexes |-> <<>>],
              handles |-> hs]
        ELSE [panic |-> o.panic, hang |-> o.hang,
              engine |-> [dataDir |-> dataDir, indexes |-> o.indexes],
              handles |-> o.handles]

\* filepath.Join(app.DataDir, token) (app.go:206): the joined path is
\* cleaned, so the token "t1/" names the directory of the token "t1"
joinDataDir(token) == IF token = "t1/" THEN "t1" ELSE token

\* NewApp(dataDir, tokens) (app.go:36-48) on a data directory tree without
\* a shard: one engine per configured token, none with an index.  The panic
\* of NewEngine is not recovered: NewApp ends there and no App exists.
RECURSIVE NewApp(_, _, _)
NewApp(st, i, dirSet) ==
    IF i > Len(Tokens) THEN st
    ELSE LET n == NewEngine(<<>>, st.handles, joinDataDir(Tokens[i]), dirSet,
                            FALSE, {})
         IN  IF n.panic THEN [st EXCEPT !.panic = TRUE]
             ELSE NewApp([panic |-> FALSE,
                          Engines |-> (Tokens[i] :> Len(st.engineObjs) + 1)
                                         @@ st.Engines,
                          engineObjs |-> Append(st.engineObjs, n.engine),
                          handles |-> n.handles],
                         i + 1, dirSet)

\* ---------------------------------------------------------------- inputs
\* RFC3339 texts: 23:00-01:00 on day 1 (which is 00:00Z of day 2) and
\* 01:00Z on day 2
TextB == [ok |-> TRUE, d |-> 1, h |-> 23, off |-> -1]
TextC == [ok |-> TRUE, d |-> 2, h |-> 1, off |-> 0]
Texts == {TextB, TextC}

plainMsg(s) == [kind |-> "text", text |-> s, obj |-> <<>>]
jsonMsg(obj) == [kind |-> "json", text |-> "", obj |-> obj]
line8(text, msg) ==
    [nf |-> LinePartCount, time |-> text, host |-> "h", app |-> "a",
     process |-> "p", msg |-> msg]

\* {"host":"x","msg":"b","time":"t","id":"i"}
Obj1 ==
    ("host" :> strV("x")) @@ ("msg" :> strV("b")) @@ ("time" :> strV("t"))
        @@ ("id" :> strV("i"))

LineB == line8(TextB, plainMsg("a"))
LineC == line8(TextC, jsonMsg(Obj1))
EngineLines == {LineB, LineC}

\* lines for the parser: too few parts, a time that does not parse, a {...}
\* message that is not JSON, an empty message, and well-formed ones
ParseLines ==
    { [EmptyLine EXCEPT !.nf = LinePartCount - 1],
      line8(ZeroText, plainMsg("a")),
      line8(TextC, [kind |-> "badjson", text |-> "", obj |-> <<>>]),
      line8(TextC, [kind |-> "empty", text |-> "", obj |-> <<>>]),
      LineB, LineC,
      line8(TextC, jsonMsg(("level" :> strV("info")))) }

Bodies(lines, n) == UNION { [1..k -> lines] : k \in 0..n }

\* every day key a record or a hit can be routed to
DayKeys ==
    { formatDay(timeParse(t)) : t \in Texts }
        \cup { utcDay(timeParse(t)) : t \in Texts }

NoReq == [term |-> "", from |-> 0, to |-> 0, size |-> 0]

\* msg:a or any time (the lower bound is before every record), and msg:a
\* or a time outside an empty range (from 02:00Z of day 2 to 23:00Z of day 1)
Requests(sizes) ==
    { [term |-> "a", from |-> 0, to |-> 72, size |-> n] : n \in sizes }
        \cup { [term |-> "a", from |-> 50, to |-> 47, size |-> n] : n \in sizes }

Procs == 1..MaxProcs

\* ---------------------------------------------------------------- state
\* The locals of a request goroutine.
\*   op, method, token, body  the request
\*   readErr                  the body could not be read
\*   i, logs, src             handleBulk's loop: the line at hand, the
\*                            records made, and the line each was made of
\*   id, entropy              newUlid: the identifier made, the source held
\*   ret, after               where indexFor / newUlid and engineForToken
\*                            return to
\*   engine, built            the engine engineForToken returned, and
\*                            whether this goroutine constructed one
\*   names, newIndexes        NewEngine: the index names still to open, and
\*                            the map of the engine under construction
\*   date, index, exists, err indexFor: its argument, the handle it returns,
\*                            what os.Stat found, the error it returns
\*   opened                   the day keys this goroutine created or opened
\*   fault                    the storage reported a fault to this request
\*   k, batches, todo,        Engine.Index: the record at hand, the batches,
\*   committed, failed        the day keys still to commit, committed, failed
\*   req, limit, entered,     Engine.Search: its arguments, the handles seen
\*   group, hits, h, out      on entering the loop and added to the alias,
\*                            the hits, the hit at hand, the records made
\*   known                    the records persisted for the tenant when the
\*                            search request arrived
\*   atEntry, visited         handleStats: the tokens registered when its loop
\*                            over app.Engines began, and those visited
\*   status, outcome          how the request ended
NoLocals ==
    [op |-> "none", method |-> "", token |-> "", body |-> <<>>,
     readErr |-> FALSE, i |-> 0, logs |-> <<>>,
     src |-> <<>>, id |-> <<>>, entropy |-> 0, ret |-> "", after |-> "",
     engine |-> 0, built |-> FALSE, names |-> <<>>, newIndexes |-> <<>>,
     date |-> 0, index |-> 0,
     exists |-> FALSE, err |-> FALSE, opened |-> {}, fault |-> FALSE,
     k |-> 0, batches |-> <<>>, todo |-> {}, committed |-> {}, failed |-> {},
     indexCalled |-> FALSE, indexErr |-> FALSE,
     req |-> NoReq, limit |-> 0, entered |-> {}, group |-> {},
     hits |-> <<>>, h |-> 0, out |-> <<>>, searched |-> FALSE,
     searchErr |-> FALSE, known |-> {}, atEntry |-> {}, visited |-> {},
     groupErr |-> FALSE,
     status |-> 0, outcome |-> ""]

\* The state NewApp leaves.  The configured tenants' directories exist
\* (NewEngine panics otherwise); no shard is persisted yet.
InitApp ==
    /\ dirs = {Tokens[i] : i \in 1..Len(Tokens)}
    /\ LET st == NewApp([panic |-> FALSE, Engines |-> <<>>,
                         engineObjs |-> <<>>, handles |-> <<>>], 1, dirs)
       IN  /\ ~st.panic
           /\ Engines = st.Engines
           /\ engineObjs = st.engineObjs
           /\ handles = st.handles
    /\ disk = <<>>
    /\ pc = [p \in Procs |-> "idle"]
    /\ loc = [p \in Procs |-> NoLocals]
    /\ entropyPool = initPool
    /\ nowMs = 0
    /\ issued = EmptyBag

Init == InitApp /\ pending = <<>>

\* where a request goroutine ends: it wrote its response, it panicked
\* (net/http recovers and closes the connection), it blocks for ever, or
\* the runtime ended the process
Ended == {"done", "panicked", "ulid_panic", "blocked", "crashed"}

\* the locals left when the handler and the calls it made are over
ended(l) ==
    [l EXCEPT !.i = 0, !.id = <<>>, !.ret = "", !.after = "", !.date = 0,
              !.index = 0, !.exists = FALSE, !.err = FALSE, !.k = 0,
              !.batches = <<>>, !.todo = {}, !.entered = {}, !.group = {},
              !.h = 0, !.names = <<>>, !.newIndexes = <<>>, !.atEntry = {},
              !.visited = {}]

\* goroutine p goes on at label with the locals l
step(p, l, label) ==
    /\ loc' = [loc EXCEPT ![p] = IF label \in Ended THEN ended(l) ELSE l]
    /\ pc' = [pc EXCEPT ![p] = label]

\* the records persisted for a tenant: shard day key, identifier, document
persisted(dataDir) ==
    UNION { { [day |-> q[2], id |-> id, doc |-> disk[q].docs[id]] :
                id \in DOMAIN disk[q].docs }
          : q \in { x \in DOMAIN disk : x[1] = dataDir } }

\* ---------------------------------------------------------------- handleBulk
\* a goroutine's next statement and its locals
at(label, l) == [next |-> label, l |-> l]

\* handleBulk's loop over the lines from line l.i up to the next call of
\* newUlid (app.go:147-175), and what follows the loop (app.go:186-191):
\* lines are skipped, the handler panics, newUlid is called for a line, or
\* the loop ends: without a record the request is answered 200, otherwise
\* it goes on to engineForToken and Index
RECURSIVE parseFrom(_)
parseFrom(l) ==
    LET lines == splitLines(l.body) IN
    IF l.i > Len(lines)
    THEN IF Len(l.logs) = 0
         THEN at("done", [l EXCEPT !.status = 200, !.outcome = "responded"])
         ELSE at("eft_lookup", [l EXCEPT !.after = "grp", !.k = 1,
                                         !.indexCalled = TRUE])
    ELSE IF parseLine(lines[l.i]) = "skip"
    THEN parseFrom([l EXCEPT !.i = l.i + 1])
    ELSE IF parseLine(lines[l.i]) = "panic"
    THEN at("panicked", [l EXCEPT !.outcome = "panicked"])
    ELSE at("ulid_get", [l EXCEPT !.ret = "parse_id"])

\* App.handleBulk (app.go:124-146): a request that is not a POST is told so
\* (with the status 200 of a plain Write), a token that is not configured is
\* refused with 401, and a body that cannot be read (readErr) is answered
\* 500; otherwise the body is split into lines and the loop over the lines
\* entered.  body: what ioutil.ReadAll returns, when it is reached.
bulkStart(p, method, token, body, readErr) ==
    LET l == [NoLocals EXCEPT !.op = "bulk", !.method = method,
                              !.token = token]
        read == [l EXCEPT !.body = body, !.i = 1]
    IN  IF method # "POST"
        THEN step(p, [l EXCEPT !.status = 200, !.outcome = "responded"], "done")
        ELSE IF ~contains(Tokens, token)
        THEN step(p, [l EXCEPT !.status = 401, !.outcome = "responded"], "done")
        ELSE IF readErr
        THEN step(p, [l EXCEPT !.readErr = TRUE, !.status = 500,
                               !.outcome = "responded"], "done")
        ELSE step(p, parseFrom(read).l, parseFrom(read).next)

\* the lines of the bulk requests received so far
RECURSIVE linesReceived(_)
linesReceived(n) ==
    IF n = 0 THEN 0 ELSE Len(loc[n].body) + linesReceived(n - 1)

\* a request arrives at /bulk/: a POST for the configured token with any
\* body (the requests of a run have MaxLines lines between them) or with a
\* body that cannot be read, a POST for a token that is not configured, or
\* a GET
BulkArrive(p) ==
    /\ pc[p] = "idle"
    /\ \/ \E body \in Bodies(EngineLines, MaxLines - linesReceived(MaxProcs)) :
             bulkStart(p, "POST", Tokens[1], body, FALSE)
       \/ bulkStart(p, "POST", Tokens[1], <<>>, TRUE)
       \/ bulkStart(p, "POST", "t1/", <<>>, FALSE)
       \/ bulkStart(p, "GET", Tokens[1], <<>>, FALSE)
    /\ UNCHANGED <<Engines, engineObjs, handles, dirs, disk, pending,
                   entropyPool, nowMs, issued>>

\* the bulk request whose body is pending arrives; the body is read or not
ParseArrive(p) ==
    /\ pc[p] = "idle"
    /\ pending # <<>>
    /\ pending' = Tail(pending)
    /\ \E readErr \in BOOLEAN :
          bulkStart(p, "POST", Tokens[1], Head(pending), readErr)
    /\ UNCHANGED <<Engines, engineObjs, handles, dirs, disk, entropyPool,
                   nowMs, issued>>

\* data["id"] = id ... parsedLogLines = append(...) (app.go:176-183) once
\* newUlid has returned, and the loop goes on with the next line
BulkAppend(p) ==
    LET l == loc[p]
        lines == splitLines(l.body)
        appended == [l EXCEPT !.logs = appendLog(l.logs,
                                                 buildLog(lines[l.i], l.id)),
                              !.src = appendLog(l.src, l.i),
                              !.i = l.i + 1]
    IN  /\ pc[p] = "parse_id"
        /\ step(p, parseFrom(appended).l, parseFrom(appended).next)
        /\ UNCHANGED <<Engines, engineObjs, handles, dirs, disk, pending,
                       entropyPool, nowMs, issued>>

\* ---------------------------------------------------------------- newUlid
\* a caller reaches id := newUlid() outside a bulk request
UlidCall(p) ==
    /\ pc[p] = "idle"
    /\ BagCardinality(issued)
          + Cardinality({ q \in Procs : pc[q] \in {"ulid_get", "ulid_new"} })
              < MaxIds
    /\ step(p, [NoLocals EXCEPT !.ret = "idle"], "ulid_get")
    /\ UNCHANGED <<Engines, engineObjs, handles, dirs, disk, pending,
                   entropyPool, nowMs, issued>>

\* entropy := entropyPool.Get().(io.Reader) (app.go:220).  The pool has no
\* New function: Get returns nil when the pool is empty, and may return nil
\* while sources remain (sync.Pool may treat the pool as empty: a source in
\* the private slot of another P is out of the caller's reach); the type
\* assertion then panics, before the deferred Put is registered.  The
\* sources differ in nothing but their names (any source may yield any
\* payload), so a Get that finds one is taken to hand out the source of the
\* least name in the pool.
UlidGet(p) ==
    /\ pc[p] = "ulid_get"
    /\ \/ /\ step(p, [loc[p] EXCEPT !.outcome = "panicked"], "ulid_panic")
          /\ UNCHANGED entropyPool
       \/ /\ entropyPool # {}
          /\ LET x == CHOOSE a \in entropyPool : \A b \in entropyPool : a <= b
             IN /\ entropyPool' = poolGet(entropyPool, x)
                /\ step(p, [loc[p] EXCEPT !.entropy = x], "ulid_new")
    /\ UNCHANGED <<Engines, engineObjs, handles, dirs, disk, pending, nowMs,
                   issued>>

\* ulid.MustNew(ulid.Timestamp(time.Now().UTC()), entropy).String()
\* (app.go:222): the payload is whatever the source yields next
UlidNew(p) ==
    /\ pc[p] = "ulid_new"
    /\ \E payload \in 0..MaxPayload :
          /\ issued' = issued (+) SetToBag({[ms |-> nowMs, payload |-> payload,
                                             id |-> ulidString(nowMs, payload)]})
          /\ step(p, [loc[p] EXCEPT !.id = ulidString(nowMs, payload)],
                  "ulid_put")
    /\ UNCHANGED <<Engines, engineObjs, handles, dirs, disk, pending,
                   entropyPool, nowMs>>

\* the deferred entropyPool.Put(entropy) (app.go:221), and the return
UlidPut(p) ==
    /\ pc[p] = "ulid_put"
    /\ entropyPool' = poolPut(entropyPool, loc[p].entropy)
    /\ step(p, [loc[p] EXCEPT !.entropy = 0], loc[p].ret)
    /\ UNCHANGED <<Engines, engineObjs, handles, dirs, disk, pending, nowMs,
                   issued>>

\* time.Now() advances by a millisecond
Tick ==
    /\ nowMs < MaxMs
    /\ nowMs' = nowMs + 1
    /\ UNCHANGED <<Engines, engineObjs, handles, dirs, disk, pending, pc, loc,
                   entropyPool, issued>>

\* The runtime clears a sync.Pool at garbage collection: the sources lying
\* in the pool are dropped, and nothing refills a pool without New.
PoolCleanup ==
    /\ entropyPool # {}
    /\ entropyPool' = {}
    /\ UNCHANGED <<Engines, engineObjs, handles, dirs, disk, pending, pc, loc,
                   nowMs, issued>>

\* ---------------------------------------------------------------- engineForToken
\* engine, ok := app.Engines[token]; if ok { return engine } (app.go:202-205)
EftLookup(p) ==
    /\ pc[p] = "eft_lookup"
    /\ IF loc[p].token \in DOMAIN Engines
       THEN step(p, [loc[p] EXCEPT !.engine = Engines[loc[p].token]],
                 loc[p].after)
       ELSE step(p, loc[p], "eft_new")
    /\ UNCHANGED <<Engines, engineObjs, handles, dirs, disk, pending,
                   entropyPool, nowMs, issued>>

\* The engine NewEngine returns (engine.go:167) once every name is opened:
\* the constructor goes on to the assignment of app.go:206
engineBuilt(p, l) ==
    /\ engineObjs' = Append(engineObjs,
                            [dataDir |-> joinDataDir(l.token),
                             indexes |-> l.newIndexes])
    /\ step(p, [l EXCEPT !.engine = Len(engineObjs) + 1, !.built = TRUE,
                         !.names = <<>>, !.newIndexes = <<>>], "eft_store")

\* NewEngine(filepath.Join(app.DataDir, token)), the right-hand side of
\* app.go:206, up to the listing of the directory (engine.go:150-158): an
\* error of listIndexes panics, and the panic ends the request
EftNew(p) ==
    /\ pc[p] = "eft_new"
    /\ \E fail \in BOOLEAN :
          LET r == listIndexes(disk, dirs, joinDataDir(loc[p].token), fail)
              l == [loc[p] EXCEPT !.names = r.names, !.newIndexes = <<>>]
          IN  IF r.err
              THEN /\ step(p, [loc[p] EXCEPT !.outcome = "panicked",
                                             !.fault = fail], "panicked")
                   /\ UNCHANGED engineObjs
              ELSE IF r.names = <<>>
              THEN engineBuilt(p, l)
              ELSE /\ step(p, l, "eft_open")
                   /\ UNCHANGED engineObjs
    /\ UNCHANGED <<Engines, handles, dirs, disk, pending, entropyPool, nowMs,
                   issued>>

\* one iteration of the loop of NewEngine (engine.go:159-165): the next
\* name is opened; a panic ends the request, a held index blocks it
EftOpen(p) ==
    /\ pc[p] = "eft_open"
    /\ \E fail \in BOOLEAN :
          LET l == loc[p]
              o == openIndex(handles, joinDataDir(l.token), Head(l.names),
                             l.newIndexes, fail)
              opened == [l EXCEPT !.names = Tail(l.names),
                                  !.newIndexes = o.indexes]
          IN  /\ handles' = o.handles
              /\ IF o.panic
                 THEN /\ step(p, [l EXCEPT !.outcome = "panicked",
                                           !.fault = TRUE], "panicked")
                      /\ UNCHANGED engineObjs
                 ELSE IF o.hang
                 THEN /\ step(p, [l EXCEPT !.outcome = "blocked"], "blocked")
                      /\ UNCHANGED engineObjs
                 ELSE IF opened.names = <<>>
                 THEN engineBuilt(p, opened)
                 ELSE /\ step(p, opened, "eft_open")
                      /\ UNCHANGED engineObjs
    /\ UNCHANGED <<Engines, dirs, disk, pending, entropyPool, nowMs, issued>>

\* app.Engines[token] = ... , the assignment of app.go:206
EftStore(p) ==
    /\ pc[p] = "eft_store"
    /\ Engines' = (loc[p].token :> loc[p].engine) @@ Engines
    /\ step(p, loc[p], "eft_return")
    /\ UNCHANGED <<engineObjs, handles, dirs, disk, pending, entropyPool,
                   nowMs, issued>>

\* return app.Engines[token] (app.go:207)
EftReturn(p) ==
    /\ pc[p] = "eft_return"
    /\ step(p, [loc[p] EXCEPT !.engine = Engines[loc[p].token]], loc[p].after)
    /\ UNCHANGED <<Engines, engineObjs, handles, dirs, disk, pending,
                   entropyPool, nowMs, issued>>

\* ---------------------------------------------------------------- indexFor
\* if index, ok := e.indexes[date]; ok { return index, nil } (engine.go:270-272)
IforLookup(p) ==
    /\ pc[p] = "ifor_lookup"
    /\ IF loc[p].date \in DOMAIN engineObjs[loc[p].engine].indexes
       THEN step(p, [loc[p] EXCEPT !.index =
                        engineObjs[loc[p].engine].indexes[loc[p].date],
                                   !.err = FALSE], loc[p].ret)
       ELSE step(p, [loc[p] EXCEPT !.err = FALSE], "ifor_stat")
    /\ UNCHANGED <<Engines, engineObjs, handles, dirs, disk, pending,
                   entropyPool, nowMs, issued>>

\* _, err := os.Stat(indexPath) and the branch on it (engine.go:275-279)
IforStat(p) ==
    /\ pc[p] = "ifor_stat"
    /\ \/ step(p, [loc[p] EXCEPT !.exists =
                      indexPathOf(engineObjs[loc[p].engine].dataDir,
                                  loc[p].date) \in DOMAIN disk], "ifor_make")
       \/ step(p, [loc[p] EXCEPT !.err = TRUE, !.fault = TRUE], loc[p].ret)
    /\ UNCHANGED <<Engines, engineObjs, handles, dirs, disk, pending,
                   entropyPool, nowMs, issued>>

\* bleve.New(indexPath, ...) when Stat found nothing, bleve.Open(indexPath)
\* otherwise (engine.go:280-283, 286-289).  bleve.New refuses a path that
\* exists by now, bleve.Open of a path held by a live handle blocks;
\* either call may fail for a reason of the storage (fault).
IforMake(p) ==
    LET l == loc[p]
        path == indexPathOf(engineObjs[l.engine].dataDir, l.date)
        made == [l EXCEPT !.index = Len(handles) + 1,
                          !.opened = l.opened \cup {l.date}]
    IN
    /\ pc[p] = "ifor_make"
    /\ \/ /\ ~l.exists /\ path \notin DOMAIN disk
          /\ disk' = (path :> EmptyShard) @@ disk
          /\ handles' = Append(handles, path)
          /\ step(p, made, "ifor_store")
       \/ /\ l.exists /\ path \in DOMAIN disk /\ path \notin held(handles)
          /\ handles' = Append(handles, path)
          /\ step(p, made, "ifor_store")
          /\ UNCHANGED disk
       \/ /\ l.exists /\ path \in held(handles)
          /\ step(p, [l EXCEPT !.outcome = "blocked"], "blocked")
          /\ UNCHANGED <<handles, disk>>
       \/ /\ ~l.exists /\ path \in DOMAIN disk
          /\ step(p, [l EXCEPT !.err = TRUE, !.exists = FALSE], l.ret)
          /\ UNCHANGED <<handles, disk>>
       \/ /\ step(p, [l EXCEPT !.err = TRUE, !.fault = TRUE,
                                !.exists = FALSE], l.ret)
          /\ UNCHANGED <<handles, disk>>
    /\ UNCHANGED <<Engines, engineObjs, dirs, pending, entropyPool, nowMs,
                   issued>>

\* e.indexes[date] = index (engine.go:284, 290)
IforStore(p) ==
    /\ pc[p] = "ifor_store"
    /\ engineObjs' = [engineObjs EXCEPT ![loc[p].engine].indexes =
                         (loc[p].date :> loc[p].index) @@ @]
    /\ step(p, loc[p], "ifor_return")
    /\ UNCHANGED <<Engines, handles, dirs, disk, pending, entropyPool, nowMs,
                   issued>>

\* return e.indexes[date], nil (engine.go:292)
IforReturn(p) ==
    /\ pc[p] = "ifor_return"
    /\ step(p, [loc[p] EXCEPT !.index =
                   engineObjs[loc[p].engine].indexes[loc[p].date],
                              !.exists = FALSE], loc[p].ret)
    /\ UNCHANGED <<Engines, engineObjs, handles, dirs, disk, pending,
                   entropyPool, nowMs, issued>>

\* ---------------------------------------------------------------- Engine.Index
\* The head of the second loop of Engine.Index (engine.go:243-244): the
\* range over the batches map yields the day keys not yet visited in any
\* order, and indexFor is called for one; after the last one Index returns
\* nil and the request is answered 200 (app.go:198)
commitHead(l) ==
    IF l.todo = {}
    THEN { at("done", [l EXCEPT !.status = 200, !.outcome = "responded"]) }
    ELSE { at("ifor_lookup", [l EXCEPT !.date = date, !.ret = "commit_ret"]) :
             date \in l.todo }

\* The head of the first loop of Engine.Index (engine.go:223-225): the day
\* key of the next record is formatted and indexFor called; after the last
\* record the second loop starts over the batches made
groupHead(l) ==
    IF l.k > Len(l.logs)
    THEN commitHead([l EXCEPT !.todo = DOMAIN l.batches])
    ELSE { at("ifor_lookup", [l EXCEPT !.date = formatDay(l.logs[l.k].Time),
                                       !.ret = "grp_ret"]) }

\* engine.Index(parsedLogLines) is called (app.go:192)
BulkGroup(p) ==
    /\ pc[p] = "grp"
    /\ \E r \in groupHead(loc[p]) : step(p, r.l, r.next)
    /\ UNCHANGED <<Engines, engineObjs, handles, dirs, disk, pending,
                   entropyPool, nowMs, issued>>

\* the rest of an iteration of the first loop, once indexFor has returned
\* (engine.go:226-240), and the head of the next iteration
GroupRet(p) ==
    LET g == groupRet(loc[p]) IN
    /\ pc[p] = "grp_ret"
    /\ IF g.next = "grp"
       THEN \E r \in groupHead(g.l) : step(p, r.l, r.next)
       ELSE step(p, g.l, g.next)
    /\ UNCHANGED <<Engines, engineObjs, handles, dirs, disk, pending,
                   entropyPool, nowMs, issued>>

\* The rest of an iteration of the second loop, once indexFor has returned
\* (engine.go:245-251), and the head of the next iteration: the error of
\* indexFor or of index.Batch ends the call, and the request is answered
\* 500 (app.go:192-197)
CommitRet(p) ==
    LET l == loc[p] IN
    /\ pc[p] = "commit_ret"
    /\ IF l.err
       THEN /\ step(p, [l EXCEPT !.indexErr = TRUE, !.status = 500,
                                 !.outcome = "responded"], "done")
            /\ UNCHANGED disk
       ELSE \E fail \in BOOLEAN :
               /\ disk' = commitBatch(disk, handles[l.index],
                                      l.batches[l.date], fail)
               /\ IF fail
                  THEN step(p, [l EXCEPT !.indexErr = TRUE, !.fault = TRUE,
                                         !.failed = {l.date}, !.status = 500,
                                         !.outcome = "responded"], "done")
                  ELSE \E r \in commitHead(
                                  [l EXCEPT !.committed = l.committed \cup {l.date},
                                            !.todo = l.todo \ {l.date}]) :
                          step(p, r.l, r.next)
    /\ UNCHANGED <<Engines, engineObjs, handles, dirs, pending, entropyPool,
                   nowMs, issued>>

\* ---------------------------------------------------------------- Engine.Search
\* App.handleDashboard (app.go:78-102): a missing token stands for the
\* first configured one, any other token is taken as it is; the search
\* request asks for bleve's default number of hits
DashArrive(p) ==
    /\ pc[p] = "idle"
    /\ \E given \in {"", "t1/", "ty"}, req \in Requests({DefaultSearchSize}) :
          LET token == IF given = "" THEN Tokens[1] ELSE given IN
          step(p, [NoLocals EXCEPT
                      !.op = "search", !.token = token,
                      !.req = req, !.limit = DashboardLimit,
                      !.known = persisted(joinDataDir(token)),
                      !.after = "srch_range"], "eft_lookup")
    /\ UNCHANGED <<Engines, engineObjs, handles, dirs, disk, pending,
                   entropyPool, nowMs, issued>>

\* Engine.Search (engine.go:178) called on a registered tenant engine with a
\* request of any size and a limit
SearchArrive(p) ==
    /\ pc[p] = "idle"
    /\ \E token \in DOMAIN Engines, req \in Requests({1, DefaultSearchSize}) :
          step(p, [NoLocals EXCEPT
                      !.op = "search", !.token = token,
                      !.engine = Engines[token], !.req = req, !.limit = 1,
                      !.known = persisted(joinDataDir(token))],
               "srch_range")
    /\ UNCHANGED <<Engines, engineObjs, handles, dirs, disk, pending,
                   entropyPool, nowMs, issued>>

\* for _, index := range e.indexes { group.Add(index) } (engine.go:183-185):
\* the goroutine enters the loop over the map, and later leaves it.  A key
\* stored in the map while the loop runs may or may not be visited.
SearchRange(p) ==
    LET l == loc[p]
        now == { engineObjs[l.engine].indexes[d] :
                   d \in DOMAIN engineObjs[l.engine].indexes }
    IN
    /\ \/ /\ pc[p] = "srch_range"
          /\ step(p, [l EXCEPT !.entered = now], "srch_iter")
       \/ /\ pc[p] = "srch_iter"
          /\ \E seen \in SUBSET now :
                /\ l.entered \subseteq seen
                /\ step(p, [l EXCEPT !.group = seen], "srch_exec")
    /\ UNCHANGED <<Engines, engineObjs, handles, dirs, disk, pending,
                   entropyPool, nowMs, issued>>

\* The head of the loop over the hits (engine.go:192-199): the day key is
\* derived again from the hit's time field and indexFor called; after the
\* last hit the records are returned and the page rendered (app.go:109)
hitHead(l) ==
    IF l.h > Len(l.hits)
    THEN at("done", [l EXCEPT !.status = 200, !.outcome = "responded"])
    ELSE at("ifor_lookup",
            [l EXCEPT !.date = formatDay(timeParse(l.hits[l.h].time)),
                      !.ret = "hit_ret"])

\* searchResult, err := group.Search(search) (engine.go:187-190): the search
\* of an alias without an index is an error, as is a fault of the storage;
\* otherwise the loop over the hits is entered
SearchExec(p) ==
    LET l == loc[p]
        found == [l EXCEPT !.hits = searchHits(disk, handles, l.group, l.req),
                           !.h = 1, !.searched = TRUE]
    IN
    /\ pc[p] = "srch_exec"
    /\ \/ /\ l.group = {}
          /\ step(p, searchFailed(l).l, searchFailed(l).next)
       \/ /\ l.group # {}
          /\ step(p, searchFailed([l EXCEPT !.fault = TRUE]).l,
                  searchFailed(l).next)
       \/ /\ l.group # {}
          /\ step(p, hitHead(found).l, hitHead(found).next)
    /\ UNCHANGED <<Engines, engineObjs, handles, dirs, disk, pending,
                   entropyPool, nowMs, issued>>

\* the rest of an iteration of the loop over the hits, once indexFor has
\* returned (engine.go:200-214), and the head of the next iteration
HitRet(p) ==
    LET l == loc[p]
        shard == IF l.err THEN EmptyShard ELSE disk[handles[l.index]]
    IN
    /\ pc[p] = "hit_ret"
    /\ \E fault \in BOOLEAN :
          LET r == hitRet(l, shard, fault) IN
          IF r.next = "srch_hit"
          THEN step(p, hitHead(r.l).l, hitHead(r.l).next)
          ELSE step(p, r.l, r.next)
    /\ UNCHANGED <<Engines, engineObjs, handles, dirs, disk, pending,
                   entropyPool, nowMs, issued>>

\* ---------------------------------------------------------------- handleStats
\* App.handleStats (app.go:63-67): the loop over app.Engines is entered
StatsArrive(p) ==
    /\ pc[p] = "idle"
    /\ step(p, [NoLocals EXCEPT !.op = "stats", !.atEntry = DOMAIN Engines],
            "stats_engines")
    /\ UNCHANGED <<Engines, engineObjs, handles, dirs, disk, pending,
                   entropyPool, nowMs, issued>>

\* for token, engine := range app.Engines (app.go:67-69): the next engine
\* is taken and the loop of its Stats over e.indexes entered (engine.go:172),
\* or the loop ends and the response is written (app.go:70-75; the maps of
\* StatsMap hold numbers and maps, which json.Marshal accepts).  A token
\* stored in app.Engines while the loop runs may or may not be visited.
StatsEngines(p) ==
    LET l == loc[p] IN
    /\ pc[p] = "stats_engines"
    /\ \/ \E token \in DOMAIN Engines \ l.visited :
             step(p, [l EXCEPT !.engine = Engines[token],
                               !.visited = l.visited \cup {token}],
                  "stats_iter")
       \/ /\ l.atEntry \subseteq l.visited
          /\ step(p, [l EXCEPT !.engine = 0, !.status = 200,
                               !.outcome = "responded"], "done")
    /\ UNCHANGED <<Engines, engineObjs, handles, dirs, disk, pending,
                   entropyPool, nowMs, issued>>

\* for date, index := range e.indexes { ... index.StatsMap() }
\* (engine.go:172-175): the goroutine leaves the loop over the map of the
\* engine, and Stats returns to the loop of handleStats
StatsRange(p) ==
    /\ pc[p] = "stats_iter"
    /\ step(p, [loc[p] EXCEPT !.engine = 0], "stats_engines")
    /\ UNCHANGED <<Engines, engineObjs, handles, dirs, disk, pending,
                   entropyPool, nowMs, issued>>

\* ---------------------------------------------------------------- runtime
\* The Go runtime ends the process ("concurrent map writes", "concurrent map
\* read and map write", "concurrent map iteration and map write") when a map
\* is written while another goroutine accesses the same map: app.Engines,
\* over which handleStats iterates until it is done, or the map of an engine.
ConcurrentMapThrow ==
    /\ \E p, q \in Procs :
          /\ p # q
          /\ \/ /\ pc[p] = "eft_store"
                /\ pc[q] \in {"eft_lookup", "eft_store", "eft_return",
                              "stats_engines", "stats_iter"}
             \/ /\ pc[p] = "ifor_store"
                /\ pc[q] \in {"srch_iter", "stats_iter", "ifor_lookup",
                              "ifor_store", "ifor_return"}
                /\ loc[p].engine = loc[q].engine
    /\ pc' = [p \in Procs |-> "crashed"]
    /\ UNCHANGED <<Engines, engineObjs, handles, dirs, disk, pending, loc,
                   entropyPool, nowMs, issued>>

\* ---------------------------------------------------------------- specifications
\* Bulk requests, dashboard requests, searches and statistics requests, each
\* on its goroutine
Next ==
    \/ \E p \in Procs :
          \/ BulkArrive(p) \/ BulkAppend(p)
          \/ UlidGet(p) \/ UlidNew(p) \/ UlidPut(p)
          \/ EftLookup(p) \/ EftNew(p) \/ EftOpen(p) \/ EftStore(p)
          \/ EftReturn(p)
          \/ IforLookup(p) \/ IforStat(p) \/ IforMake(p) \/ IforStore(p)
          \/ IforReturn(p)
          \/ BulkGroup(p) \/ GroupRet(p) \/ CommitRet(p)
          \/ DashArrive(p) \/ SearchArrive(p) \/ SearchRange(p)
          \/ SearchExec(p) \/ HitRet(p)
          \/ StatsArrive(p) \/ StatsEngines(p) \/ StatsRange(p)
    \/ ConcurrentMapThrow
    \/ Tick
    \/ PoolCleanup

Spec == Init /\ [][Next]_vars

\* One bulk request, with any body of up to MaxParseLines lines
InitParse ==
    InitApp /\ pending \in { <<b>> : b \in Bodies(ParseLines, MaxParseLines) }

NextParse ==
    \/ \E p \in Procs :
          \/ ParseArrive(p) \/ BulkAppend(p)
          \/ UlidGet(p) \/ UlidNew(p) \/ UlidPut(p)
          \/ EftLookup(p)
          \/ IforLookup(p) \/ IforStat(p) \/ IforMake(p) \/ IforStore(p)
          \/ IforReturn(p)
          \/ BulkGroup(p) \/ GroupRet(p) \/ CommitRet(p)
    \/ Tick
    \/ PoolCleanup

SpecParse == InitParse /\ [][NextParse]_vars

\* Callers of newUlid, the clock advancing and the runtime clearing the pool
NextUlid ==
    \/ \E p \in Procs : UlidCall(p) \/ UlidGet(p) \/ UlidNew(p) \/ UlidPut(p)
    \/ Tick
    \/ PoolCleanup

SpecUlid == Init /\ [][NextUlid]_vars

\* ---------------------------------------------------------------- claims
\* the lines handleBulk iterates over in the bulk request of goroutine p
linesOf(p) == splitLines(loc[p].body)

\* a line that is skipped by design: too few parts, a time that does not
\* parse, or a {...} message that is not JSON
malformed(line) ==
    \/ line.nf < LinePartCount
    \/ line.nf = LinePartCount /\ ~line.time.ok
    \/ line.nf = LinePartCount /\ line.time.ok /\ line.msg.kind = "badjson"

\* a line with 8 parts, a time that parses, and a non-empty message that is
\* plain text or a JSON object
wellFormed(line) ==
    line.nf = LinePartCount /\ line.time.ok /\ line.msg.kind \in {"text", "json"}

\* goroutine p serves a bulk POST with a configured token whose body was read
bodyRead(p) ==
    /\ loc[p].op = "bulk"
    /\ loc[p].method = "POST"
    /\ contains(Tokens, loc[p].token)
    /\ ~loc[p].readErr

\* the bulk request of goroutine p is past the loop over its lines
parsed(p) ==
    /\ bodyRead(p)
    /\ pc[p] \notin {"ulid_get", "ulid_new", "ulid_put", "parse_id", "crashed"}

\* C1: for every engine and day key the index is created or opened by at
\* most one caller of indexFor, and every caller that comes back from
\* indexFor (the storage reporting no fault) receives, without error, the
\* one handle registered in the engine's map.
C1_OneShardHandle ==
    /\ \A e \in 1..Len(engineObjs), date \in DayKeys :
          Cardinality({ p \in Procs : loc[p].engine = e
                                        /\ date \in loc[p].opened }) <= 1
    /\ \A p \in Procs :
          (pc[p] \in {"grp_ret", "commit_ret", "hit_ret"} /\ ~loc[p].fault) =>
              /\ ~loc[p].err
              /\ loc[p].date \in DOMAIN engineObjs[loc[p].engine].indexes
              /\ loc[p].index = engineObjs[loc[p].engine].indexes[loc[p].date]

\* C2: for every token at most one Engine is constructed (the one NewApp
\* constructed for a configured token included), and every caller that came
\* back from engineForToken holds the Engine registered for its token.
C2_OneEnginePerToken ==
    \A token \in {"t1", "t1/", "ty"} :
        /\ Cardinality({ p \in Procs : loc[p].token = token /\ loc[p].built })
               + (IF contains(Tokens, token) THEN 1 ELSE 0) <= 1
        /\ \A p \in Procs :
              (loc[p].token = token /\ loc[p].engine # 0
                  /\ pc[p] \notin {"eft_store", "eft_return", "crashed"})
                  => (token \in DOMAIN Engines /\ loc[p].engine = Engines[token])

\* C3: every persisted record lies in the shard whose day key is the UTC
\* calendar day of its timestamp; so two records of a tenant share a shard
\* exactly when they share a UTC calendar day.
C3_RoutedByUtcDay ==
    \A dataDir \in dirs :
        /\ \A r \in persisted(dataDir) : r.day = utcDay(r.doc["time"].t)
        /\ \A a, b \in persisted(dataDir) :
              (utcDay(a.doc["time"].t) = utcDay(b.doc["time"].t))
                  <=> (a.day = b.day)

\* C4: a search that was answered and met no storage fault succeeded and
\* returned every record that was persisted for the tenant when the request
\* arrived (and still is), whose msg the query matches and whose time lies
\* in the request's range (the hits not being cut at the request's size),
\* with data that serialises to the same JSON as the data that was indexed.
C4_RoundTrip ==
    \A p \in Procs :
        (loc[p].op = "search" /\ pc[p] = "done" /\ ~loc[p].fault) =>
            LET req == loc[p].req
                found == { r \in loc[p].known \cap persisted(joinDataDir(loc[p].token)) :
                             /\ "msg" \in DOMAIN r.doc
                             /\ r.doc["msg"].s = req.term
                             /\ r.doc["time"].t.inst >= req.from
                             /\ r.doc["time"].t.inst <= req.to }
            IN  (found # {} /\ Len(loc[p].hits) < req.size) =>
                    /\ ~loc[p].searchErr
                    /\ \A r \in found :
                          \E i \in 1..Len(loc[p].out) :
                              /\ loc[p].out[i].Id = r.id
                              /\ jsonMarshal(loc[p].out[i].Data)
                                     = jsonMarshal(r.doc)

\* C5: when the commit of one shard's batch fails, the failing step
\* persists nothing, Index returns an error (the request is answered 500),
\* and every record of a shard committed earlier in the call is still
\* present in that shard, document and raw blob.
C5_CommitFailure ==
    /\ [](\A p \in Procs :
            (loc[p].op = "bulk" /\ loc[p].failed # {}) =>
                /\ loc[p].indexErr /\ loc[p].status = 500
                /\ \A k \in 1..Len(loc[p].logs) :
                      LET log == loc[p].logs[k]
                          day == formatDay(log.Time)
                          path == indexPathOf(joinDataDir(loc[p].token), day)
                      IN  day \in loc[p].committed =>
                              /\ log.Id \in DOMAIN disk[path].docs
                              /\ log.Id \in DOMAIN disk[path].raw)
    /\ [][\A p \in Procs :
            (loc[p].failed = {} /\ loc'[p].failed # {}) => disk' = disk]_vars

\* a commit failed after another shard's batch had been committed
C5_Witness ==
    \E p \in Procs :
        loc[p].op = "bulk" /\ loc[p].failed # {} /\ loc[p].committed # {}

\* C6: a bulk request with a malformed line hands Index exactly the records
\* of its well-formed lines: the malformed lines yield nothing and every
\* well-formed line, before or after them, yields its record.
C6_MalformedNeverAborts ==
    \A p \in Procs :
        (parsed(p) /\ \E i \in 1..Len(linesOf(p)) : malformed(linesOf(p)[i])) =>
            LET good == { i \in 1..Len(linesOf(p)) : wellFormed(linesOf(p)[i]) }
            IN  /\ { loc[p].src[k] : k \in 1..Len(loc[p].src) } = good
                /\ Len(loc[p].src) = Cardinality(good)
                /\ good # {} => loc[p].indexCalled

\* C7: every line with 8 parts and a time that parses yields exactly one
\* record, whose Time is the parsed time, whatever its message is (an empty
\* message included; a {...} message that is not JSON left aside).
C7_OneRecordPerLine ==
    \A p \in Procs :
        parsed(p) =>
            \A i \in 1..Len(linesOf(p)) :
                LET line == linesOf(p)[i] IN
                (line.nf = LinePartCount /\ line.time.ok
                    /\ line.msg.kind # "badjson") =>
                    /\ Cardinality({ k \in 1..Len(loc[p].src) :
                                       loc[p].src[k] = i }) = 1
                    /\ \A k \in 1..Len(loc[p].src) :
                          loc[p].src[k] = i =>
                              loc[p].logs[k].Time = timeParse(line.time)

\* C8 as stated: the data of a record made from a JSON message is the
\* object's keys merged with host, app and process, and every key the object
\* supplies keeps the object's value.
C8_EmbeddedKeysKept ==
    \A p \in Procs :
        \A k \in 1..Len(loc[p].logs) :
            LET line == linesOf(p)[loc[p].src[k]]
                data == loc[p].logs[k].Data
            IN  line.msg.kind = "json" =>
                    /\ DOMAIN data =
                           DOMAIN line.msg.obj \cup {"host", "app", "process"}
                    /\ \A key \in DOMAIN line.msg.obj :
                          data[key] = line.msg.obj[key]

\* C8 amended: the data has the object's keys, host, app, process, id and
\* time; id and time are the record's identifier and parsed time, every other
\* key the object supplies keeps the object's value, and host, app and
\* process come from the line when the object does not supply them.
C8_EmbeddedKeysKeptButIdTime ==
    \A p \in Procs :
        \A k \in 1..Len(loc[p].logs) :
            LET line == linesOf(p)[loc[p].src[k]]
                log == loc[p].logs[k]
                obj == line.msg.obj
            IN  line.msg.kind = "json" =>
                    /\ DOMAIN log.Data =
                           DOMAIN obj \cup {"host", "app", "process", "id", "time"}
                    /\ log.Data["id"] = idV(log.Id)
                    /\ log.Data["time"] = timeV(log.Time)
                    /\ \A key \in DOMAIN obj \ {"id", "time"} :
                          log.Data[key] = obj[key]
                    /\ \A key \in {"host", "app", "process"} \ DOMAIN obj :
                          log.Data[key] = baseData(line)[key]

\* a record was made from a JSON message that supplies host, id and time
C8_Witness ==
    \E p \in Procs :
        \E k \in 1..Len(loc[p].logs) :
            LET line == linesOf(p)[loc[p].src[k]] IN
            /\ line.msg.kind = "json"
            /\ {"host", "id", "time"} \subseteq DOMAIN line.msg.obj

\* C9: a search that succeeds returns at most limit records.
C9_AtMostLimit ==
    \A p \in Procs :
        (loc[p].op = "search" /\ pc[p] = "done" /\ ~loc[p].searchErr) =>
            Len(loc[p].out) <= loc[p].limit

\* C10: a search that was answered either failed and returned no record, or
\* returned one record per hit, in hit order; it failed whenever the raw
\* blob of some hit is absent from the shard of the day key derived from the
\* hit's time.
C10_AllOrNothing ==
    \A p \in Procs :
        (loc[p].op = "search" /\ pc[p] = "done") =>
            /\ loc[p].searchErr => loc[p].out = <<>>
            /\ ~loc[p].searchErr =>
                  /\ Len(loc[p].out) = Len(loc[p].hits)
                  /\ \A i \in 1..Len(loc[p].hits) :
                        loc[p].out[i].Id = loc[p].hits[i].ID
            /\ (\E i \in 1..Len(loc[p].hits) :
                   LET path == indexPathOf(
                                   joinDataDir(loc[p].token),
                                   formatDay(timeParse(loc[p].hits[i].time)))
                   IN  \/ path \notin DOMAIN disk
                       \/ loc[p].hits[i].ID \notin DOMAIN disk[path].raw)
                  => loc[p].searchErr

\* a search with hits failed although the storage reported no fault: the
\* blob of a hit is absent from the shard derived from the hit's time
C10_Witness ==
    \E p \in Procs :
        /\ loc[p].op = "search" /\ pc[p] = "done"
        /\ loc[p].searchErr /\ ~loc[p].fault /\ Len(loc[p].hits) > 0

\* C11: no call of newUlid fails: no caller panics for want of an entropy
\* source.
C11_NewUlidNeverFails ==
    \A p \in Procs : pc[p] # "ulid_panic"

\* C12: no entropy source is held by two callers at the same time, and a
\* source a caller holds is not in the pool.
C12_SourceHeldByOne ==
    \A p \in Procs :
        loc[p].entropy # 0 =>
            /\ loc[p].entropy \notin entropyPool
            /\ \A q \in Procs \ {p} : loc[q].entropy # loc[p].entropy

\* two callers hold a source each at the same time
C12_Witness ==
    \E p, q \in Procs :
        /\ p # q
        /\ pc[p] \in {"ulid_new", "ulid_put"}
        /\ pc[q] \in {"ulid_new", "ulid_put"}
        /\ loc[p].entropy # 0 /\ loc[q].entropy # 0

\* C13 as stated: the identifiers issued are pairwise distinct.
C13_PairwiseDistinct ==
    \A a, b \in BagToSet(issued) :
        /\ issued[a] = 1
        /\ a # b => a.id # b.id

\* C13 amended: two identifiers issued are equal exactly when they were
\* made in the same millisecond from equal random payloads.
C13_DistinctUnlessSamePayload ==
    \A a, b \in BagToSet(issued) :
        (a.id = b.id) <=> (a.ms = b.ms /\ a.payload = b.payload)

\* two identifiers were made in the same millisecond from different payloads
C13_Witness ==
    \E a, b \in BagToSet(issued) : a.ms = b.ms /\ a.payload # b.payload

\* C14: an identifier made at an earlier millisecond sorts before one made
\* at a later millisecond, whatever the payloads.
C14_SortsByTimestamp ==
    \A a, b \in BagToSet(issued) : a.ms < b.ms => strLess(a.id, b.id)

\* an identifier with the larger payload was made at the earlier millisecond
C14_Witness ==
    \E a, b \in BagToSet(issued) : a.ms < b.ms /\ a.payload > b.payload

\* C15: a bulk POST with a configured token whose payload was read and whose
\* lines are all malformed (the empty payload included) is answered 200 as
\* it arrives, without Index being called, and leaves the registry, the
\* engines, the handles and the shards as they were.
C15_ZeroRecordsNoOp ==
    /\ [](\A p \in Procs :
            (/\ bodyRead(p)
             /\ \A i \in 1..Len(linesOf(p)) : malformed(linesOf(p)[i]))
            => (/\ pc[p] = "done"
                /\ loc[p].outcome = "responded"
                /\ loc[p].status = 200
                /\ ~loc[p].indexCalled
                /\ loc[p].opened = {} /\ ~loc[p].built))
    /\ [][\A p \in Procs :
            (/\ loc[p].op = "none" /\ bodyRead(p)'
             /\ \A i \in 1..Len(splitLines(loc'[p].body)) :
                   malformed(splitLines(loc'[p].body)[i]))
            => UNCHANGED <<Engines, engineObjs, handles, disk, dirs>>]_vars

\* a bulk request for a configured token, with several lines that are all
\* malformed, was answered
C15_Witness ==
    \E p \in Procs :
        /\ bodyRead(p)
        /\ pc[p] = "done"
        /\ Len(loc[p].body) > 1
        /\ \A i \in 1..Len(linesOf(p)) : malformed(linesOf(p)[i])

\* C16: every key of app.Engines is a configured token.
C16_OnlyConfiguredTokens ==
    \A token \in DOMAIN Engines : contains(Tokens, token)

\* C17: when indexFor fails while Index is grouping, the call ends there and
\* the request is answered 500; nothing is committed: no shard holds a record
\* of the call (unless another request wrote a record under the same
\* identifier), and every shard the call created or opened is registered in
\* the engine and exists.
C17_GroupingFailure ==
    \A p \in Procs :
        loc[p].groupErr =>
            LET eng == engineObjs[loc[p].engine] IN
            /\ pc[p] \in {"done", "crashed"}
            /\ loc[p].status = 500
            /\ loc[p].committed = {}
            /\ \A k \in 1..Len(loc[p].logs), path \in DOMAIN disk :
                  loc[p].logs[k].Id \in DOMAIN disk[path].docs \cup DOMAIN disk[path].raw
                      => \E q \in Procs \ {p} : \E j \in 1..Len(loc[q].logs) :
                             loc[q].logs[j].Id = loc[p].logs[k].Id
            /\ \A day \in loc[p].opened :
                  /\ day \in DOMAIN eng.indexes
                  /\ indexPathOf(eng.dataDir, day) \in DOMAIN disk
                  /\ handles[eng.indexes[day]] = indexPathOf(eng.dataDir, day)

\* an Index call failed while grouping, after it had created the shard of
\* an earlier record
C17_Witness ==
    \E p \in Procs : loc[p].groupErr /\ loc[p].opened # {}

\* C18: no goroutine is inside the loop of Search or of Stats over
\* e.indexes while another goroutine is at the point of storing a key in the
\* same map.
C18_NoIterationDuringInsert ==
    \A p, q \in Procs :
        ~(/\ p # q
          /\ pc[p] \in {"srch_iter", "stats_iter"}
          /\ pc[q] = "ifor_store"
          /\ loc[p].engine = loc[q].engine)

\* C19: in every shard the identifiers of the indexed documents are the keys
\* that hold a raw blob, and the blob is the serialised document.
C19_DocsMatchRaw ==
    \A path \in DOMAIN disk :
        /\ DOMAIN disk[path].docs = DOMAIN disk[path].raw
        /\ \A id \in DOMAIN disk[path].docs :
              disk[path].raw[id] = jsonMarshal(disk[path].docs[id])

\* an Index call failed in a commit while another shard holds records
C19_Witness ==
    /\ \E p \in Procs : loc[p].op = "bulk" /\ loc[p].failed # {}
    /\ \E path \in DOMAIN disk : disk[path].docs # <<>>

\* C20: the records made so far are the records of well-formed lines, in
\* the order of the lines; the records handed to Index are those of all the
\* well-formed lines of the payload.
C20_InputOrderKept ==
    \A p \in Procs :
        /\ Len(loc[p].logs) = Len(loc[p].src)
        /\ \A k, l \in 1..Len(loc[p].src) :
              k < l => loc[p].src[k] < loc[p].src[l]
        /\ \A k \in 1..Len(loc[p].src) :
              LET line == linesOf(p)[loc[p].src[k]] IN
              /\ wellFormed(line)
              /\ loc[p].logs[k].Time = timeParse(line.time)
              /\ line.msg.kind = "text" =>
                    loc[p].logs[k].Data["msg"] = strV(line.msg.text)
        /\ loc[p].indexCalled =>
              { loc[p].src[k] : k \in 1..Len(loc[p].src) }
                  = { i \in 1..Len(linesOf(p)) : wellFormed(linesOf(p)[i]) }

\* two records were handed to Index, made from lines with a malformed line
\* between them
C20_Witness ==
    \E p \in Procs :
        /\ loc[p].indexCalled
        /\ Len(loc[p].src) = 2
        /\ loc[p].src[2] = loc[p].src[1] + 2
        /\ linesOf(p)[loc[p].src[1]] # linesOf(p)[loc[p].src[2]]
====
